---- MODULE Spec2Model ----
(***************************************************************************)
(* Model of scrape_listings.py: one run fetches the Oikotie and the Lumo   *)
(* result pages (fetch_soup, with retries), extracts one listing count     *)
(* from each (find_candidate_counts, choose_reasonable) and upserts the    *)
(* dated row into data/listings.csv (init_csv, read_last_row, main).       *)
(*                                                                         *)
(* Texts are sequences of one-character strings, so that the regular       *)
(* expressions, str(), isoformat() and the csv reader/writer are computed  *)
(* character by character.                                                 *)
(***************************************************************************)
EXTENDS Integers, Sequences, FiniteSets, TLC

\* ---- bounds ---------------------------------------------------------------

\* most text nodes of a page drawn for the extraction specification
MaxNodes == 3
\* most data rows the ledger holds before runs stop being started
MaxRows == 3
\* the runs execute on the days 1..MaxDay of one month
MaxDay == 2
\* ---- program constants ----------------------------------------------------

\* fetch_soup(url, tries=3, ...)
Tries == 3
\* choose_reasonable(cands, min_ok=500, max_ok=300_000)
OikotieMin == 500
OikotieMax == 300000
\* choose_reasonable(cands, min_ok=50, max_ok=20_000)
LumoMin == 50
LumoMax == 20000
\* Python integers are unbounded; the model saturates a parsed integer at
\* this value, which lies above both ranges, so no range test is affected.
BigInt == 1000000

TARGET_URL_OIKOTIE == "https://asunnot.oikotie.fi/vuokra-asunnot"
TARGET_URL_LUMO == "https://lumo.fi/vuokra-asunnot"

\* ---- characters -----------------------------------------------------------

\* the non-breaking space U+00A0, as one character
NBSP == "nbsp"

DigitChars == <<"0","1","2","3","4","5","6","7","8","9">>

DigitSet == {"0","1","2","3","4","5","6","7","8","9"}

\* \d
IsDigit(c) == c \in DigitSet

DigitVal(c) == (CHOOSE k \in 1..10 : DigitChars[k] = c) - 1

\* [  ] in RE_GROUPED_INT
IsSep(c) == c = " " \/ c = NBSP

\* \s of a str pattern: Unicode whitespace, U+00A0 included
IsSpace(c) == c = " " \/ c = NBSP

UpperSet == {"A","B","C","D","E","F","G","H","I","J","K","L","M","N","O","P","Q","R","S","T","U","V","W","X","Y","Z","Ä","Ö"}
UpperCase == <<"A","B","C","D","E","F","G","H","I","J","K","L","M","N","O","P","Q","R","S","T","U","V","W","X","Y","Z","Ä","Ö">>
LowerCase == <<"a","b","c","d","e","f","g","h","i","j","k","l","m","n","o","p","q","r","s","t","u","v","w","x","y","z","ä","ö">>

\* re.IGNORECASE compares case-folded characters
Lower(c) ==
    IF c \in UpperSet
    THEN LowerCase[CHOOSE k \in 1..Len(UpperCase) : UpperCase[k] = c]
    ELSE c

COUNT_KEYWORDS ==
    << <<"h","a","k","u","t","u","l","o","s","t","a">>,
       <<"h","a","k","u","t","u","l","o","k","s","e","t">>,
       <<"i","l","m","o","i","t","u","s","t","a">>,
       <<"i","l","m","o","i","t","u","k","s","e","t">>,
       <<"a","s","u","n","t","o","a">>,
       <<"a","s","u","n","t","o","j","a">>,
       <<"k","o","h","d","e","t","t","a">>,
       <<"k","o","h","t","e","e","t">>,
       <<"y","h","t","e","e","n","s","ä">>,
       <<"k","a","i","k","k","i","a","a","n">> >>

\* ---- sequences ------------------------------------------------------------

\* F(v), with v evaluated once and bound
With(v, F(_)) == CHOOSE r \in {F(x) : x \in {v}} : TRUE

RECURSIVE Join(_, _)
\* sep.join(parts)
Join(parts, sep) ==
    IF Len(parts) = 0 THEN <<>>
    ELSE IF Len(parts) = 1 THEN parts[1]
    ELSE parts[1] \o sep \o Join(Tail(parts), sep)

RECURSIVE Reverse(_)
Reverse(s) == IF Len(s) = 0 THEN <<>> ELSE Reverse(Tail(s)) \o <<Head(s)>>

SeqMax(s) == CHOOSE x \in {s[k] : k \in 1..Len(s)} : \A k \in 1..Len(s) : s[k] <= x

\* ---- the number patterns --------------------------------------------------

Dig(t, p) == p >= 1 /\ p <= Len(t) /\ IsDigit(t[p])

Digits3(t, p) == Dig(t, p) /\ Dig(t, p + 1) /\ Dig(t, p + 2)

\* one iteration of (?:[  ]?\d{3}) at p: the position after it, 0 if it
\* does not match
GroupStep(t, p) ==
    IF p <= Len(t) /\ IsSep(t[p]) /\ Digits3(t, p + 1) THEN p + 4
    ELSE IF Digits3(t, p) THEN p + 3
    ELSE 0

RECURSIVE GroupEnds(_, _)
\* the positions after 1, 2, ... iterations of the group from p
GroupEnds(t, p) ==
    LET q == GroupStep(t, p)
    IN  IF q = 0 THEN <<>> ELSE <<q>> \o GroupEnds(t, q)

RECURSIVE DigitRun(_, _)
\* number of consecutive digits from p
DigitRun(t, p) == IF Dig(t, p) THEN 1 + DigitRun(t, p + 1) ELSE 0

\* RE_GROUPED_INT = \d{1,3}(?:[  ]?\d{3})+ at p: the end positions of
\* its matches in the order the backtracking matcher tries them (greedy)
GroupedEnds(t, p) ==
    LET Lead(k) == IF \A j \in 0..(k - 1) : Dig(t, p + j)
                   THEN Reverse(GroupEnds(t, p + k)) ELSE <<>>
    IN  Lead(3) \o Lead(2) \o Lead(1)

\* RE_PLAIN_INT = \d{3,} at p, longest first
PlainEnds(t, p) ==
    LET n == DigitRun(t, p)
    IN  IF n < 3 THEN <<>> ELSE [k \in 1..(n - 2) |-> p + n + 1 - k]

\* ({RE_GROUPED_INT}|{RE_PLAIN_INT}) at p: grouped is tried first
NumberEnds(t, p) == GroupedEnds(t, p) \o PlainEnds(t, p)

RECURSIVE SkipSpace(_, _)
\* \s* (greedy) from p
SkipSpace(t, p) ==
    IF p <= Len(t) /\ IsSpace(t[p]) THEN SkipSpace(t, p + 1) ELSE p

StartsWithAt(t, p, w) ==
    /\ p + Len(w) - 1 <= Len(t)
    /\ \A j \in 1..Len(w) : Lower(t[p + j - 1]) = Lower(w[j])

\* (?:hakutulosta|...|kaikkiaan) at p: the position after the first
\* alternative that matches, 0 if none does
KeywordEnd(t, p) ==
    LET hits == {k \in 1..Len(COUNT_KEYWORDS) : StartsWithAt(t, p, COUNT_KEYWORDS[k])}
    IN  IF hits = {} THEN 0
        ELSE p + Len(COUNT_KEYWORDS[CHOOSE k \in hits : \A m \in hits : k <= m])

RECURSIVE ToInt(_, _)
\* _clean_to_int on t[p..e-1] continuing from acc: non-digits are dropped
ToInt(s, acc) ==
    IF Len(s) = 0 THEN acc
    ELSE IF IsDigit(Head(s))
         THEN ToInt(Tail(s), IF acc * 10 + DigitVal(Head(s)) > BigInt THEN BigInt
                             ELSE acc * 10 + DigitVal(Head(s)))
         ELSE ToInt(Tail(s), acc)

\* _clean_to_int(s): <<>> for None, <<v>> for the integer v
_clean_to_int(s) ==
    IF \A k \in 1..Len(s) : ~IsDigit(s[k]) THEN <<>> ELSE <<ToInt(s, 0)>>

\* a match is <<start of group 1, end of group 1, end of the whole match>>,
\* ends exclusive; <<>> when the pattern does not match at p

\* rx_keywords at p (the pattern starts with \d): the first number match, in
\* the matcher's order, that whitespace and a keyword follow
KeywordMatchAt(t, p) ==
    IF ~Dig(t, p) THEN <<>>
    ELSE With(NumberEnds(t, p), LAMBDA ends :
           With({k \in 1..Len(ends) : KeywordEnd(t, SkipSpace(t, ends[k])) # 0}, LAMBDA ok :
             IF ok = {} THEN <<>>
             ELSE With(ends[CHOOSE k \in ok : \A m \in ok : k <= m], LAMBDA e :
                    <<p, e, KeywordEnd(t, SkipSpace(t, e))>>)))

\* rx_slash_total at p: the trailing \s*(?:keyword)? never fails, so group 1
\* is the first number match
SlashMatchAt(t, p) ==
    IF ~(p <= Len(t) /\ t[p] = "/") THEN <<>>
    ELSE With(SkipSpace(t, p + 1), LAMBDA s :
           With(NumberEnds(t, s), LAMBDA ends :
             IF Len(ends) = 0 THEN <<>>
             ELSE With(SkipSpace(t, ends[1]), LAMBDA w :
                    With(KeywordEnd(t, w), LAMBDA k :
                      <<s, ends[1], IF k # 0 THEN k ELSE w>>))))

\* rx_all at p (the pattern starts with \d)
AllMatchAt(t, p) ==
    IF ~Dig(t, p) THEN <<>>
    ELSE With(NumberEnds(t, p), LAMBDA ends :
           IF Len(ends) = 0 THEN <<>> ELSE <<p, ends[1], ends[1]>>)

MatchAt(rx, t, p) ==
    CASE rx = "keywords" -> KeywordMatchAt(t, p)
      [] rx = "slash_total" -> SlashMatchAt(t, p)
      [] rx = "all" -> AllMatchAt(t, p)

RECURSIVE FindIter(_, _, _)
\* [_clean_to_int(m.group(1)) for m in rx.finditer(text)], None dropped:
\* the leftmost match at or after p, then on from the end of that match
FindIter(rx, t, p) ==
    With({q \in p..Len(t) : MatchAt(rx, t, q) # <<>>}, LAMBDA starts :
      IF starts = {} THEN <<>>
      ELSE With(MatchAt(rx, t, CHOOSE q \in starts : \A r \in starts : q <= r), LAMBDA m :
             With(SubSeq(t, m[1], m[2] - 1), LAMBDA g : _clean_to_int(g))
             \o FindIter(rx, t, m[3])))

KeywordCands(t) == FindIter("keywords", t, 1)

SlashCands(t) == FindIter("slash_total", t, 1)

BareCands(t) == FindIter("all", t, 1)

find_candidate_counts(text) ==
    With(text, LAMBDA t : KeywordCands(t) \o SlashCands(t) \o BareCands(t))

InRange(cands, min_ok, max_ok) ==
    SelectSeq(cands, LAMBDA x : min_ok <= x /\ x <= max_ok)

\* choose_reasonable that forgets the upper end of the range
choose_reasonable_no_max(cands, min_ok, max_ok) ==
    With(SelectSeq(cands, LAMBDA x : min_ok <= x), LAMBDA ok :
      IF Len(ok) = 0 THEN <<>> ELSE <<SeqMax(ok)>>)

\* <<>> for None, <<v>> for the value v
choose_reasonable(cands, min_ok, max_ok) ==
    With(InRange(cands, min_ok, max_ok), LAMBDA ok :
      IF Len(ok) = 0 THEN <<>> ELSE <<SeqMax(ok)>>)

\* ---- pages -----------------------------------------------------------------

\* A parsed page (BeautifulSoup): its text nodes in document order, already
\* stripped and non-empty; the first h of them lie inside h1/h2 elements.
NoSoup == [nodes |-> <<>>, h |-> 0]

\* soup.get_text(" ", strip=True)
get_text(page) == Join(page.nodes, <<" ">>)

\* " ".join(tag.get_text(" ", strip=True) for tag in soup.find_all(["h1", "h2"]))
headings(page) == Join(SubSeq(page.nodes, 1, page.h), <<" ">>)

PhraseNode == <<"H","a","k","u","e","h","d","o","i","l","l","a","s","i"," ","l","ö","y","t","y","i">>
AsuntoaNode == <<"a","s","u","n","t","o","a">>

\* the text nodes the pages of the extraction specification are built from
NodeChoices ==
    { <<"4","5","0">>, <<"9",NBSP,"0","0","0">>, <<"4","5"," ","6","0","0">>,
      AsuntoaNode, <<"/">>, PhraseNode }

AllPages ==
    UNION { [nodes : [1..n -> NodeChoices], h : 0..n] : n \in 1..MaxNodes }

Only2024Page == [nodes |-> << <<"2","0","2","4">> >>, h |-> 0]
NoCountPage == [nodes |-> << <<"4","5">> >>, h |-> 0]

\* the pages the two sites answer with in the run specification
OikotiePages ==
    { [nodes |-> << <<"1","-","2","4">>, <<"/">>, <<"1","2"," ","3","4","5">>,
                    <<"I","l","m","o","i","t","u","s","t","a">> >>, h |-> 0],
      Only2024Page, NoCountPage }

LumoPages ==
    { [nodes |-> << PhraseNode, <<"2",NBSP,"0","2","4">>, AsuntoaNode >>, h |-> 3],
      Only2024Page, NoCountPage }

\* the exceptions a request can raise
CauseSet == {"exc1", "exc2"}

\* ---- str(), isoformat(), csv ----------------------------------------------

RECURSIVE Str(_)
\* str(n) for n >= 0
Str(n) == IF n < 10 THEN <<DigitChars[n + 1]>>
          ELSE Str(n \div 10) \o <<DigitChars[(n % 10) + 1]>>

\* dt.date(2024, 5, d).isoformat()
Isoformat(d) ==
    <<"2","0","2","4","-","0","5","-">> \o <<DigitChars[(d \div 10) + 1], DigitChars[(d % 10) + 1]>>

\* csv.writer(f).writerow(fields): no field here needs quoting
writerow(fields) == Join(fields, <<",">>)

RECURSIVE SplitComma(_, _)
SplitComma(line, cur) ==
    IF Len(line) = 0 THEN <<cur>>
    ELSE IF Head(line) = "," THEN <<cur>> \o SplitComma(Tail(line), <<>>)
    ELSE SplitComma(Tail(line), Append(cur, Head(line)))

\* one row of csv.reader(f)
readrow(line) == SplitComma(line, <<>>)

HeaderRow == << <<"d","a","t","e">>, <<"o","i","k","o","t","i","e">>, <<"l","u","m","o">> >>

\* ---- state ----------------------------------------------------------------

VARIABLES
    csv_exists,     \* os.path.exists(CSV_PATH)
    csv_lines,      \* the lines of data/listings.csv
    before_exists,  \* csv_exists when the current run started
    before_lines,   \* csv_lines when the current run started
    today,          \* main: today
    pc,             \* position of the run
    i,              \* fetch_soup: loop index
    last_exc,       \* fetch_soup: last_exc
    attempts,       \* outcomes of the requests of the current fetch_soup call
    sleeps,         \* time.sleep(delay) calls of the current fetch_soup call
    soup,           \* the page the last fetch_soup call returned
    oikotie,        \* main: oikotie (<<>> before it is assigned)
    lumo,           \* main: lumo (<<>> before it is assigned)
    err             \* the exception that ended the run

vars == <<csv_exists, csv_lines, before_exists, before_lines, today, pc, i, last_exc,
          attempts, sleeps, soup, oikotie, lumo, err>>

NoErr == [kind |-> "none", what |-> "none", cause |-> "none"]

Days == 1..MaxDay

\* ---- the csv file ---------------------------------------------------------

\* init_csv that writes the header whether or not the file exists
init_csv_truncate(exists, lines) == <<writerow(HeaderRow)>>

\* init_csv that creates the file without writing the header
init_csv_no_header(exists, lines) == lines

\* init_csv(path): the lines of the file afterwards
init_csv(exists, lines) == IF exists THEN lines ELSE <<writerow(HeaderRow)>>

\* read_last_row(path): <<>> for None, else the last row after the header
read_last_row(exists, lines) ==
    IF ~exists THEN <<>>
    ELSE IF Len(lines) <= 1 THEN <<>>
    ELSE readrow(lines[Len(lines)])

\* the ledger update without the comparison with the last row: always append
upsert_always_append(lines, day, o, l) ==
    Append(lines, writerow(<<day, Str(o), Str(l)>>))

\* the ledger update that replaces the last row whatever its date
upsert_replace_any(lines, day, o, l) ==
    LET last == read_last_row(TRUE, lines)
    IN  IF last # <<>>
        THEN LET rows == [k \in 1..Len(lines) |-> readrow(lines[k])]
                 rows2 == [rows EXCEPT ![Len(rows)] = <<day, Str(o), Str(l)>>]
             IN  [k \in 1..Len(rows2) |-> writerow(rows2[k])]
        ELSE Append(lines, writerow(<<day, Str(o), Str(l)>>))

\* main, the ledger update: the lines of the file afterwards
upsert(lines, day, o, l) ==
    LET last == read_last_row(TRUE, lines)
    IN  IF last # <<>> /\ last[1] = day
        THEN LET rows == [k \in 1..Len(lines) |-> readrow(lines[k])]
                 rows2 == [rows EXCEPT ![Len(rows)] = <<day, Str(o), Str(l)>>]
             IN  [k \in 1..Len(rows2) |-> writerow(rows2[k])]
        ELSE Append(lines, writerow(<<day, Str(o), Str(l)>>))

\* ---- the extractors -------------------------------------------------------

\* fetch_oikotie_count after fetch_soup: <<v>>, or <<>> when it raises
oikotie_count(page) ==
    choose_reasonable(find_candidate_counts(get_text(page)), OikotieMin, OikotieMax)

\* fetch_lumo_count after fetch_soup: <<v>>, or <<>> when it raises
lumo_count(page) ==
    With(choose_reasonable(find_candidate_counts(get_text(page)), LumoMin, LumoMax), LAMBDA val :
      IF val = <<>>
      THEN choose_reasonable(find_candidate_counts(headings(page)), LumoMin, LumoMax)
      ELSE val)

\* ---- actions --------------------------------------------------------------

Fetching == pc \in {"fetch_oikotie", "fetch_lumo"}

UrlOf(p) == IF p \in {"fetch_oikotie", "sleep_oikotie", "extract_oikotie"}
            THEN TARGET_URL_OIKOTIE ELSE TARGET_URL_LUMO

\* main: today = ...; init_csv(CSV_PATH); fetch_oikotie_count begins
StartRun(d) ==
    /\ pc \in {"idle", "done", "failed"}
    /\ Len(csv_lines) <= MaxRows
    /\ today' = Isoformat(d)
    /\ before_exists' = csv_exists
    /\ before_lines' = csv_lines
    /\ csv_exists' = TRUE
    /\ csv_lines' = init_csv(csv_exists, csv_lines)
    /\ pc' = "fetch_oikotie"
    /\ i' = 0
    /\ last_exc' = "none"
    /\ attempts' = <<>>
    /\ sleeps' = 0
    /\ soup' = NoSoup
    /\ oikotie' = <<>>
    /\ lumo' = <<>>
    /\ err' = NoErr

\* fetch_soup: requests.get succeeds, the parsed page is returned
RequestOk(page) ==
    /\ Fetching
    /\ i < Tries
    /\ page \in (IF pc = "fetch_oikotie" THEN OikotiePages ELSE LumoPages)
    /\ attempts' = Append(attempts, "ok")
    /\ soup' = page
    /\ pc' = IF pc = "fetch_oikotie" THEN "extract_oikotie" ELSE "extract_lumo"
    /\ UNCHANGED <<csv_exists, csv_lines, before_exists, before_lines, today, i, last_exc,
                   sleeps, oikotie, lumo, err>>

\* fetch_soup that keeps the first exception instead of the last
RequestFail_first_exc(exc) ==
    /\ Fetching
    /\ i < Tries
    /\ attempts' = Append(attempts, exc)
    /\ last_exc' = IF last_exc = "none" THEN exc ELSE last_exc
    /\ IF i < Tries - 1
       THEN /\ pc' = IF pc = "fetch_oikotie" THEN "sleep_oikotie" ELSE "sleep_lumo"
            /\ err' = err
       ELSE /\ pc' = "failed"
            /\ err' = [kind |-> "fetch", what |-> UrlOf(pc), cause |-> last_exc']
    /\ UNCHANGED <<csv_exists, csv_lines, before_exists, before_lines, today, i, sleeps,
                   soup, oikotie, lumo>>

\* fetch_soup: the request raises exc; after the last try RuntimeError is raised
RequestFail(exc) ==
    /\ Fetching
    /\ i < Tries
    /\ attempts' = Append(attempts, exc)
    /\ last_exc' = exc
    /\ IF i < Tries - 1
       THEN /\ pc' = IF pc = "fetch_oikotie" THEN "sleep_oikotie" ELSE "sleep_lumo"
            /\ err' = err
       ELSE /\ pc' = "failed"
            /\ err' = [kind |-> "fetch", what |-> UrlOf(pc), cause |-> last_exc']
    /\ UNCHANGED <<csv_exists, csv_lines, before_exists, before_lines, today, i, sleeps,
                   soup, oikotie, lumo>>

\* fetch_soup: time.sleep(delay), then the next iteration
RetrySleep ==
    /\ pc \in {"sleep_oikotie", "sleep_lumo"}
    /\ sleeps' = sleeps + 1
    /\ i' = i + 1
    /\ pc' = IF pc = "sleep_oikotie" THEN "fetch_oikotie" ELSE "fetch_lumo"
    /\ UNCHANGED <<csv_exists, csv_lines, before_exists, before_lines, today, last_exc,
                   attempts, soup, oikotie, lumo, err>>

\* fetch_oikotie_count that returns None instead of raising
ExtractOikotie_no_raise ==
    /\ pc = "extract_oikotie"
    /\ pc' = "pause"
    /\ oikotie' = oikotie_count(soup)
    /\ i' = 0
    /\ last_exc' = "none"
    /\ attempts' = <<>>
    /\ sleeps' = 0
    /\ UNCHANGED <<csv_exists, csv_lines, before_exists, before_lines, today, soup, lumo, err>>

\* fetch_oikotie_count, after fetch_soup (whose locals are gone)
ExtractOikotie ==
    /\ pc = "extract_oikotie"
    /\ \E val \in {oikotie_count(soup)} :
          IF val = <<>>
          THEN /\ pc' = "failed"
               /\ err' = [kind |-> "extract", what |-> "Oikotie", cause |-> "none"]
               /\ oikotie' = oikotie
          ELSE /\ pc' = "pause"
               /\ oikotie' = val
               /\ err' = err
    /\ i' = 0
    /\ last_exc' = "none"
    /\ attempts' = <<>>
    /\ sleeps' = 0
    /\ UNCHANGED <<csv_exists, csv_lines, before_exists, before_lines, today, soup, lumo>>

\* main: time.sleep(2); fetch_lumo_count begins
Pause ==
    /\ pc = "pause"
    /\ pc' = "fetch_lumo"
    /\ i' = 0
    /\ last_exc' = "none"
    /\ attempts' = <<>>
    /\ sleeps' = 0
    /\ soup' = NoSoup
    /\ UNCHANGED <<csv_exists, csv_lines, before_exists, before_lines, today, oikotie,
                   lumo, err>>

\* fetch_lumo_count, after fetch_soup (whose locals are gone)
ExtractLumo ==
    /\ pc = "extract_lumo"
    /\ \E val \in {lumo_count(soup)} :
          IF val = <<>>
          THEN /\ pc' = "failed"
               /\ err' = [kind |-> "extract", what |-> "Lumo", cause |-> "none"]
               /\ lumo' = lumo
          ELSE /\ pc' = "write"
               /\ lumo' = val
               /\ err' = err
    /\ i' = 0
    /\ last_exc' = "none"
    /\ attempts' = <<>>
    /\ sleeps' = 0
    /\ UNCHANGED <<csv_exists, csv_lines, before_exists, before_lines, today, soup, oikotie>>

\* main: replace the last row when it is today's, else append; print
WriteRecord ==
    /\ pc = "write"
    /\ csv_lines' = upsert(csv_lines, today, oikotie[1], lumo[1])
    /\ pc' = "done"
    /\ UNCHANGED <<csv_exists, before_exists, before_lines, today, i, last_exc, attempts,
                   sleeps, soup, oikotie, lumo, err>>

\* ---- specifications -------------------------------------------------------

\* no run yet, no ledger file
Init ==
    /\ csv_exists = FALSE
    /\ csv_lines = <<>>
    /\ before_exists = FALSE
    /\ before_lines = <<>>
    /\ today = Isoformat(1)
    /\ pc = "idle"
    /\ i = 0
    /\ last_exc = "none"
    /\ attempts = <<>>
    /\ sleeps = 0
    /\ soup = NoSoup
    /\ oikotie = <<>>
    /\ lumo = <<>>
    /\ err = NoErr

Next ==
    \/ \E d \in Days : StartRun(d)
    \/ \E page \in OikotiePages \cup LumoPages : RequestOk(page)
    \/ \E exc \in CauseSet : RequestFail(exc)
    \/ RetrySleep
    \/ ExtractOikotie
    \/ Pause
    \/ ExtractLumo
    \/ WriteRecord

Spec == Init /\ [][Next]_vars

\* The extractors on every page of up to MaxNodes text nodes: a first run,
\* just after the first request of a fetch returned the page.
InitExtract ==
    /\ csv_exists = TRUE
    /\ csv_lines = <<writerow(HeaderRow)>>
    /\ before_exists = FALSE
    /\ before_lines = <<>>
    /\ today = Isoformat(1)
    /\ pc \in {"extract_oikotie", "extract_lumo"}
    /\ i = 0
    /\ last_exc = "none"
    /\ attempts = <<"ok">>
    /\ sleeps = 0
    /\ soup \in AllPages
    /\ oikotie = IF pc = "extract_lumo" THEN <<12345>> ELSE <<>>
    /\ lumo = <<>>
    /\ err = NoErr

NextExtract ==
    \/ ExtractOikotie
    \/ ExtractLumo
    \/ WriteRecord

SpecExtract == InitExtract /\ [][NextExtract]_vars

\* ---- properties ------------------------------------------------------------

HeaderLine == writerow(HeaderRow)

\* fetch_oikotie_count has returned or raised on the page in soup
OikotieExtracted ==
    pc = "pause" \/ (pc = "failed" /\ err.kind = "extract" /\ err.what = "Oikotie")

\* fetch_lumo_count has returned or raised on the page in soup
LumoExtracted ==
    pc \in {"write", "done"} \/ (pc = "failed" /\ err.kind = "extract" /\ err.what = "Lumo")

\* the ledger a run starts from, once init_csv has run
StartLines == IF before_exists THEN before_lines ELSE <<HeaderLine>>

\* C1: when some keyword-adjacent number of the page text is within the
\* source's range, the extractor returns the maximum of the in-range
\* keyword-adjacent numbers, whatever slash-preceded or bare numbers the
\* text holds besides.
C1_KeywordStageDecides ==
    LET t == get_text(soup)
        kwO == InRange(KeywordCands(t), OikotieMin, OikotieMax)
        kwL == InRange(KeywordCands(t), LumoMin, LumoMax)
    IN  /\ (OikotieExtracted /\ Len(kwO) > 0) => oikotie = <<SeqMax(kwO)>>
        /\ (LumoExtracted /\ Len(kwL) > 0) => lumo = <<SeqMax(kwL)>>

\* C2: when the Lumo page text contains 'Hakuehdoillasi löytyi N asuntoa',
\* the Lumo extractor returns exactly N, whatever else is on the page and
\* whether or not N lies in [50, 20000].
C2_PhraseExact ==
    LET t == get_text(soup)
        PhraseAt(p) == /\ p + Len(PhraseNode) - 1 <= Len(t)
                       /\ \A j \in 1..Len(PhraseNode) : t[p + j - 1] = PhraseNode[j]
        NumAfter(p) ==
            LET s == SkipSpace(t, p + Len(PhraseNode))
                ends == NumberEnds(t, s)
                ok == {k \in 1..Len(ends) : StartsWithAt(t, SkipSpace(t, ends[k]), AsuntoaNode)}
            IN  IF ok = {} THEN <<>>
                ELSE _clean_to_int(SubSeq(t, s, ends[CHOOSE k \in ok : \A m \in ok : k <= m] - 1))
        hits == {p \in 1..Len(t) : PhraseAt(p) /\ NumAfter(p) # <<>>}
    IN  (LumoExtracted /\ hits # {}) =>
            lumo = NumAfter(CHOOSE p \in hits : \A q \in hits : p <= q)

C5_FailedRunSameFile ==
    pc = "failed" => (csv_exists = before_exists /\ csv_lines = before_lines)

\* C5, amended: after a failed run a ledger file that existed before the run
\* has the same contents, and a file that was absent exists and holds the
\* header line only; no data row is added, changed or removed.
C5_FailedRunSameRows ==
    pc = "failed" =>
        /\ csv_exists
        /\ csv_lines = (IF before_exists THEN before_lines ELSE <<HeaderLine>>)

\* a run failed on a ledger that already held data rows
C5_Witness ==
    /\ pc = "failed"
    /\ before_exists
    /\ Len(before_lines) >= 3

\* C6: the steps of a run follow the order fetch/extract Oikotie, pause,
\* fetch/extract Lumo, write; Lumo is fetched only with Oikotie's count in
\* hand; the data rows change only in the single write step, which has both
\* counts and puts them in the written row; every data row has three
\* non-empty fields.
C6_RunOrder ==
    [][
        /\ pc' # pc =>
              <<pc, pc'>> \in
                 { <<"idle", "fetch_oikotie">>, <<"done", "fetch_oikotie">>,
                   <<"failed", "fetch_oikotie">>,
                   <<"fetch_oikotie", "sleep_oikotie">>, <<"sleep_oikotie", "fetch_oikotie">>,
                   <<"fetch_oikotie", "extract_oikotie">>, <<"fetch_oikotie", "failed">>,
                   <<"extract_oikotie", "pause">>, <<"extract_oikotie", "failed">>,
                   <<"pause", "fetch_lumo">>,
                   <<"fetch_lumo", "sleep_lumo">>, <<"sleep_lumo", "fetch_lumo">>,
                   <<"fetch_lumo", "extract_lumo">>, <<"fetch_lumo", "failed">>,
                   <<"extract_lumo", "write">>, <<"extract_lumo", "failed">>,
                   <<"write", "done">> }
        /\ pc' \in {"pause", "fetch_lumo", "sleep_lumo", "extract_lumo", "write"} => oikotie' # <<>>
        /\ pc' = "write" => lumo' # <<>>
        /\ (csv_exists /\ csv_lines' # csv_lines) =>
              /\ pc = "write" /\ pc' = "done"
              /\ oikotie # <<>> /\ lumo # <<>>
              /\ readrow(csv_lines'[Len(csv_lines')]) = <<today, Str(oikotie[1]), Str(lumo[1])>>
        /\ (~csv_exists /\ csv_lines' # csv_lines) => csv_lines' = <<HeaderLine>>
        /\ \A k \in 2..Len(csv_lines') :
              /\ Len(readrow(csv_lines'[k])) = 3
              /\ \A f \in 1..3 : Len(readrow(csv_lines'[k])[f]) > 0
    ]_vars

\* a run has written its row after both extractions
C6_Witness ==
    /\ pc = "done"
    /\ oikotie # <<>>
    /\ lumo # <<>>
    /\ Len(csv_lines) >= 2

\* C7: one fetch_soup call makes at most Tries requests; a successful
\* request is its last; it has slept once after every failed request but
\* the Tries-th; when all Tries requests failed the error raised carries
\* the URL and the cause of the last of them.
C7_BoundedFetch ==
    LET n == Len(attempts)
    IN  /\ n <= Tries
        /\ \A k \in 1..(n - 1) : attempts[k] # "ok"
        /\ pc \in {"fetch_oikotie", "fetch_lumo"} => (sleeps = n /\ n < Tries)
        /\ pc \in {"sleep_oikotie", "sleep_lumo"} => (sleeps = n - 1 /\ n < Tries)
        /\ pc \in {"extract_oikotie", "extract_lumo"} => (attempts[n] = "ok" /\ sleeps = n - 1)
        /\ (pc = "failed" /\ err.kind = "fetch") =>
              /\ n = Tries
              /\ attempts[n] # "ok"
              /\ sleeps = Tries - 1
              /\ err.cause = attempts[n]
              /\ err.what = (IF oikotie = <<>> THEN TARGET_URL_OIKOTIE ELSE TARGET_URL_LUMO)

\* all tries failed, the last for another cause than the first
C7_Witness ==
    /\ pc = "failed"
    /\ err.kind = "fetch"
    /\ Len(attempts) = Tries
    /\ attempts[1] # attempts[Tries]

\* C8: a page whose text holds the year 2024 and no other number makes the
\* extraction of either source fail, and the run writes no row.
C8_YearRejected ==
    LET t == get_text(soup)
        digits == SelectSeq(t, IsDigit)
    IN  ((OikotieExtracted \/ LumoExtracted) /\ BareCands(t) = <<2024>>
            /\ digits = <<"2","0","2","4">>) =>
            (pc = "failed" /\ err.kind = "extract" /\ csv_lines = StartLines)

\* C9: once a run has started the ledger file exists, its first line is the
\* header, no other line is the header, and every other line has three
\* fields: a date yyyy-mm-dd and two decimal integers.
C9_LedgerShape ==
    pc # "idle" =>
        /\ csv_exists
        /\ Len(csv_lines) >= 1
        /\ \A k \in 1..Len(csv_lines) : (csv_lines[k] = HeaderLine) <=> (k = 1)
        /\ \A k \in 2..Len(csv_lines) :
              LET row == readrow(csv_lines[k])
              IN  /\ Len(row) = 3
                  /\ Len(row[1]) = 10
                  /\ \A j \in 1..10 : IF j \in {5, 8} THEN row[1][j] = "-" ELSE IsDigit(row[1][j])
                  /\ \A f \in 2..3 : Len(row[f]) > 0 /\ \A j \in 1..Len(row[f]) : IsDigit(row[f][j])

\* a run failed after the ledger had got two data rows
C9_Witness ==
    /\ pc = "failed"
    /\ Len(csv_lines) >= 3
    /\ csv_lines[1] = HeaderLine

\* C10: a count an extractor returns lies in its source's range, also on
\* Lumo's heading fallback; an extractor raises exactly when no candidate
\* (of the text, for Lumo also of the headings) is in range; the counts in
\* the ledger's rows lie in the ranges.
C10_CountsInRange ==
    LET t == get_text(soup)
        h == headings(soup)
        InO(x) == OikotieMin <= x /\ x <= OikotieMax
        InL(x) == LumoMin <= x /\ x <= LumoMax
        any(c, In(_)) == \E k \in 1..Len(c) : In(c[k])
    IN  /\ oikotie # <<>> => InO(oikotie[1])
        /\ lumo # <<>> => InL(lumo[1])
        /\ OikotieExtracted => ((pc = "failed") <=> ~any(BareCands(t) \o KeywordCands(t) \o SlashCands(t), InO))
        /\ LumoExtracted =>
              ((pc = "failed") <=>
                  ~any(BareCands(t) \o KeywordCands(t) \o SlashCands(t)
                       \o BareCands(h) \o KeywordCands(h) \o SlashCands(h), InL))
        /\ \A k \in 2..Len(csv_lines) :
              /\ InO(ToInt(readrow(csv_lines[k])[2], 0))
              /\ InL(ToInt(readrow(csv_lines[k])[3], 0))

\* the Lumo count came from the headings: no candidate of the page text was
\* in range
C10_Witness ==
    /\ pc = "done"
    /\ lumo # <<>>
    /\ choose_reasonable(find_candidate_counts(get_text(soup)), LumoMin, LumoMax) = <<>>
    /\ Len(csv_lines) = 2

====
